---- MODULE Spec2Model ----
(***************************************************************************)
(* Model of the tracerr crate (src/src/lib.rs, src/src/trace.rs).          *)
(*                                                                         *)
(* Error values live in slots (local variables of the propagating code).   *)
(* Every Trace owns a Vec<Frame>; the Vec buffers live in `heap`, and a    *)
(* Traced wrapper refers to its buffer by the buffer's id, so that moves,  *)
(* clones and drops of wrappers are modelled as the code performs them.    *)
(***************************************************************************)
EXTENDS Integers, Sequences, FiniteSets, TLC

VARIABLES
    slots,                      \* slot -> the error value it currently holds
    heap,                       \* buffer id -> the Vec<Frame> of a Trace
    DEFAULT_FRAMES_CAPACITY,    \* lib.rs:171, the process-wide AtomicUsize
    out,                        \* text the last operation rendered, if it rendered any
    panicked,                   \* the last operation panicked instead of returning
    grow,                       \* per slot: trace at the first growth, frames pushed since
    rt                          \* per slot: the wrapper that split() took apart

vars == <<slots, heap, DEFAULT_FRAMES_CAPACITY, out, panicked, grow, rt>>

----------------------------------------------------------------------------
(* Bounds of the model.                                                    *)

MaxLen == 2         \* longest trace that is still pushed to
MaxTraces == 2      \* Vec<Frame> buffers that may be live at once

Slots == {1, 2}     \* local variables that hold error values
\* The slot of the error that propagates: the first one.
Main == CHOOSE s \in Slots : \A t \in Slots : s <= t
TraceIds == 1 .. MaxTraces

(* Target constants: a 32-bit target, whose isize::MAX TLC's integers hold. *)
ISizeMax == 2147483647
FrameSize == 20     \* size_of::<Frame>(): two &'static str and a u32
MaxCapacity == ISizeMax \div FrameSize
InitialCapacity == 10

----------------------------------------------------------------------------
(* Data model.                                                             *)

\* trace.rs:11-22, struct Frame { file, line, module }
Frame(file, line, module) == [file |-> file, line |-> line, module |-> module]

Frames == { Frame("a.rs", 10, "m"), Frame("b.rs", 20, "m::sub") }

\* A bare error value of type ty (u8 or u32, as in the crate's tests).
Base(ty, v) == [k |-> "base", ty |-> ty, v |-> v]

BareErrors == { Base("u8", 7), Base("u8", 54) }

\* lib.rs:173-184, struct Traced { trace: Trace, err: E }
Traced(err, trace) == [k |-> "traced", err |-> err, trace |-> trace]

\* lib.rs:208, the (E, Trace) pair split() returns
Parts(err, trace) == [k |-> "parts", err |-> err, trace |-> trace]

\* A slot whose value was moved out or dropped.
None == [k |-> "none"]

\* trace.rs:34, struct Trace(Vec<Frame>): the buffer of one Vec
Vec(frames) == [live |-> TRUE, frames |-> frames]

FreeVec == [live |-> FALSE, frames |-> <<>>]

FreeIds(h) == { i \in TraceIds : ~h[i].live }

Alloc(h) == CHOOSE i \in FreeIds(h) : \A j \in FreeIds(h) : i <= j

RECURSIVE IdsOf(_)
\* The buffers a value owns, its own and those of the wrappers nested in it.
IdsOf(v) == IF v.k \in {"traced", "parts"} THEN {v.trace} \cup IdsOf(v.err) ELSE {}

RECURSIVE View(_, _)
\* What a value looks like to an observer: traces by content, not by buffer.
View(v, h) ==
    IF v.k \in {"traced", "parts"}
    THEN [k |-> v.k, err |-> View(v.err, h), trace |-> h[v.trace].frames]
    ELSE v

----------------------------------------------------------------------------
(* Vec<Frame>, reached through Trace's Deref/DerefMut (trace.rs:45-57).   *)

\* Vec::with_capacity(n): panics when n frames would exceed isize::MAX bytes.
\* The capacity is a reservation only: the new Vec is empty whatever n is.
with_capacity(h, n) ==
    IF n > MaxCapacity
    THEN [ok |-> FALSE, id |-> 0, h |-> h]
    ELSE LET id == Alloc(h)
         IN  [ok |-> TRUE, id |-> id, h |-> [h EXCEPT ![id] = Vec(<<>>)]]

\* A push that inserts at the front, as insert(0, f) would.
push_front(h, id, f) == [h EXCEPT ![id] = Vec(<<f>> \o h[id].frames)]

\* Vec::push: appends at the end (a full buffer is reallocated, never refused).
push(h, id, f) == [h EXCEPT ![id] = Vec(Append(h[id].frames, f))]

\* Vec::pop through DerefMut: removes the last frame, if any.
pop(h, id) ==
    LET v == h[id]
    IN  IF v.frames = <<>> THEN h
        ELSE [h EXCEPT ![id] = Vec(SubSeq(v.frames, 1, Len(v.frames) - 1))]

\* Dropping a value frees every buffer it owns.
drop(h, v) == [i \in TraceIds |-> IF i \in IdsOf(v) THEN FreeVec ELSE h[i]]

----------------------------------------------------------------------------
(* The crate's operations. Each returns [ok, val, h]: whether it returned  *)
(* (ok) or panicked, the value it returned and the heap it left.           *)

Ret(val, h) == [ok |-> TRUE, val |-> val, h |-> h]

\* Unwinding drops the arguments the panicking call owned.
Panic(h, e) == [ok |-> FALSE, val |-> None, h |-> drop(h, e)]

\* The blanket impl without its push: the new trace stays empty.
wrap_traced_E_unpushed(h, e, f, dfc) ==
    LET a == with_capacity(h, dfc)
    IN  IF a.ok THEN Ret(Traced(e, a.id), a.h) ELSE Panic(h, e)

\* lib.rs:266-275, impl<E> WrapTraced<E> for E
wrap_traced_E(h, e, f, dfc) ==
    LET a == with_capacity(h, dfc)
    IN  IF a.ok THEN Ret(Traced(e, a.id), push(a.h, a.id, f)) ELSE Panic(h, e)

\* Growth that starts the trace over instead of pushing onto it.
wrap_traced_Traced_fresh(h, t, f) == Ret(t, [h EXCEPT ![t.trace] = Vec(<<f>>)])

\* lib.rs:277-285, impl<E> WrapTraced<E> for Traced<E>
wrap_traced_Traced(h, t, f) == Ret(t, push(h, t.trace, f))

\* The impls of WrapTraced that apply to a value. For a Traced<X> both do:
\* WrapTraced<X> (growth) and, through the blanket impl, WrapTraced<Traced<X>>;
\* the type the call site expects back selects one.
Impls(e) == IF e.k = "traced" THEN {"E", "Traced"} ELSE {"E"}

\* lib.rs:259-264, WrapTraced::wrap_traced, dispatched to the selected impl
wrap_traced(h, e, f, impl, dfc) ==
    IF impl = "Traced" THEN wrap_traced_Traced(h, e, f) ELSE wrap_traced_E(h, e, f, dfc)

\* The From conversions of the inner error: From<T> for T and From<u8> for u32.
Convs == {"id", "widen"}

Applicable(conv, x) == conv = "id" \/ (x.k = "base" /\ x.ty = "u8")

From(conv, x) == IF conv = "widen" THEN Base("u32", x.v) ELSE x

\* A map_from that builds a new, empty Trace instead of moving e.trace.
map_from_retraced(h, e, conv) ==
    Ret(Traced(From(conv, e.err), e.trace), [h EXCEPT ![e.trace] = Vec(<<>>)])

\* lib.rs:295-301, map_from
map_from(h, e, conv) == Ret(Traced(From(conv, e.err), e.trace), h)

\* lib.rs:330-335, new! (and the closure of wrap!, lib.rs:377-387)
new(h, e, f, impl, dfc) == wrap_traced(h, e, f, impl, dfc)

\* lib.rs:352-357, map_from_and_new!: new!(map_from(e))
map_from_and_new(h, e, conv, f, impl, dfc) ==
    LET m == map_from(h, e, conv) IN new(m.h, m.val, f, impl, dfc)

\* lib.rs:402-412, map_from_and_wrap!: err is a Traced<$from> and the closure
\* returns Traced<$to>, so new! can only resolve to the impl for Traced<$to>.
map_from_and_wrap(h, e, conv, f, dfc) ==
    LET m == map_from(h, e, conv) IN new(m.h, m.val, f, "Traced", dfc)

\* lib.rs:429-439, from_and_wrap!: map_from(new!(err))
from_and_wrap(h, e, conv, f, impl, dfc) ==
    LET w == new(h, e, f, impl, dfc)
    IN  IF w.ok THEN map_from(w.h, w.val, conv) ELSE w

\* lib.rs:220-224, From<(E, Frame)>: E is opaque here, only the blanket impl applies
from_frame(h, e, f, dfc) == wrap_traced(h, e, f, "E", dfc)

\* A compose that ignores the trace it is given.
compose_untraced(h, error, trace) ==
    Ret(Traced(error, trace), [h EXCEPT ![trace] = Vec(<<>>)])

\* lib.rs:215-217, Traced::compose
compose(h, error, trace) == Ret(Traced(error, trace), h)

\* lib.rs:226-230, From<(E, Trace)>
from_trace(h, error, trace) == compose(h, error, trace)

\* lib.rs:201-203, Traced::into_inner: the trace is dropped
into_inner(h, t) == Ret(t.err, [h EXCEPT ![t.trace] = FreeVec])

\* lib.rs:208-210, Traced::split
split(h, t) == Ret(Parts(t.err, t.trace), h)

\* lib.rs:192-194, Traced::trace
trace(h, t) == h[t.trace].frames

\* A clone that copies the handle and shares the buffer.
clone_shallow(h, v) == Ret(v, h)

RECURSIVE clone(_, _)
\* lib.rs:174 and trace.rs:33, derive(Clone): the error and the Vec are copied
clone(h, v) ==
    IF v.k = "base" THEN Ret(v, h)
    ELSE LET c == clone(h, v.err)
             id == Alloc(c.h)
         IN  Ret(Traced(c.val, id), [c.h EXCEPT ![id] = Vec(h[v.trace].frames)])

----------------------------------------------------------------------------
(* Display (trace.rs:11-12 and trace.rs:59-67).                            *)

Digit(d) == <<"0", "1", "2", "3", "4", "5", "6", "7", "8", "9">>[d + 1]

RECURSIVE u32_to_string(_)
\* Display of the u32 line number: its decimal digits.
u32_to_string(n) ==
    IF n < 10 THEN Digit(n) ELSE u32_to_string(n \div 10) \o Digit(n % 10)

\* A Frame display with file and module exchanged.
fmt_Frame_swapped(fr) ==
    fr.file \o "\n  at " \o fr.module \o ":" \o u32_to_string(fr.line)

\* trace.rs:11-12, #[display("{module}\n  at {file}:{line}")]
fmt_Frame(fr) == fr.module \o "\n  at " \o fr.file \o ":" \o u32_to_string(fr.line)

RECURSIVE fmt_loop(_, _, _)
\* trace.rs:62-64, the loop of Display for Trace, from frame i on
fmt_loop(frames, i, buf) ==
    IF i > Len(frames) THEN buf
    ELSE fmt_loop(frames, i + 1, buf \o "\n" \o fmt_Frame(frames[i]))

\* trace.rs:59-67, impl Display for Trace
fmt_Trace(frames) == fmt_loop(frames, 1, "error trace:")

----------------------------------------------------------------------------
(* Bookkeeping shared by the actions.                                      *)

Fresh(v, h) == [base |-> View(v, h), pushed |-> <<>>]

\* Slot s takes the result r of an operation.
Commit(s, r) ==
    /\ slots' = [slots EXCEPT ![s] = r.val]
    /\ heap' = r.h
    /\ panicked' = ~r.ok
    /\ out' = ""
    /\ UNCHANGED DEFAULT_FRAMES_CAPACITY

\* The operation started a new history of slot s.
Restart(s, r) ==
    /\ grow' = [grow EXCEPT ![s] = Fresh(r.val, r.h)]
    /\ rt' = [rt EXCEPT ![s] = None]

CanPush(t) == Len(heap[t.trace].frames) < MaxLen

CanWrap(e, impl) == IF impl = "Traced" THEN CanPush(e) ELSE FreeIds(heap) # {}

IsError(v) == v.k \in {"base", "traced"}

----------------------------------------------------------------------------
(* Actions: one per entry point of the crate.                              *)

Init ==
    /\ slots = [s \in Slots |-> None]
    /\ heap = [i \in TraceIds |-> FreeVec]
    /\ DEFAULT_FRAMES_CAPACITY = InitialCapacity
    /\ out = ""
    /\ panicked = FALSE
    /\ grow = [s \in Slots |-> [base |-> None, pushed |-> <<>>]]
    /\ rt = [s \in Slots |-> None]

\* An error is raised: the bare value e appears in the free slot s.
RaiseAt(s, e) ==
    /\ slots[s] = None
    /\ Commit(s, Ret(e, heap))
    /\ Restart(s, Ret(e, heap))

Raise(s) == \E e \in BareErrors : RaiseAt(s, e)

\* new!(e) / wrap!()(e) with frame f, resolved to impl
NewAt(s, f, impl) ==
    /\ IsError(slots[s])
    /\ impl \in Impls(slots[s])
    /\ CanWrap(slots[s], impl)
    /\ LET r == new(heap, slots[s], f, impl, DEFAULT_FRAMES_CAPACITY)
       IN  /\ Commit(s, r)
           /\ IF impl = "Traced"
              THEN /\ grow' = [grow EXCEPT ![s].pushed = Append(@, f)]
                   /\ rt' = [rt EXCEPT ![s] = None]
              ELSE Restart(s, r)

New(s) == \E f \in Frames, impl \in {"E", "Traced"} : NewAt(s, f, impl)

\* Traced::from((e, f))
FromFrameAt(s, f) ==
    /\ IsError(slots[s])
    /\ CanWrap(slots[s], "E")
    /\ LET r == from_frame(heap, slots[s], f, DEFAULT_FRAMES_CAPACITY)
       IN  Commit(s, r) /\ Restart(s, r)

FromFrame(s) == \E f \in Frames : FromFrameAt(s, f)

\* map_from(e) with the conversion conv
MapFromAt(s, conv) ==
    /\ slots[s].k = "traced"
    /\ Applicable(conv, slots[s].err)
    /\ LET r == map_from(heap, slots[s], conv)
       IN  Commit(s, r) /\ Restart(s, r)

MapFrom(s) == \E conv \in Convs : MapFromAt(s, conv)

\* map_from_and_new!(e)
MapFromAndNewAt(s, conv, f, impl) ==
    /\ slots[s].k = "traced"
    /\ Applicable(conv, slots[s].err)
    /\ CanWrap(slots[s], impl)
    /\ LET r == map_from_and_new(heap, slots[s], conv, f, impl, DEFAULT_FRAMES_CAPACITY)
       IN  Commit(s, r) /\ Restart(s, r)

MapFromAndNew(s) ==
    \E conv \in Convs, f \in Frames, impl \in {"E", "Traced"} :
        MapFromAndNewAt(s, conv, f, impl)

\* map_from_and_wrap!()(e)
MapFromAndWrapAt(s, conv, f) ==
    /\ slots[s].k = "traced"
    /\ Applicable(conv, slots[s].err)
    /\ CanWrap(slots[s], "Traced")
    /\ LET r == map_from_and_wrap(heap, slots[s], conv, f, DEFAULT_FRAMES_CAPACITY)
       IN  Commit(s, r) /\ Restart(s, r)

MapFromAndWrap(s) == \E conv \in Convs, f \in Frames : MapFromAndWrapAt(s, conv, f)

\* from_and_wrap!()(e): the conversion applies to what new! wrapped
FromAndWrapAt(s, conv, f, impl) ==
    /\ IsError(slots[s])
    /\ impl \in Impls(slots[s])
    /\ Applicable(conv, IF impl = "E" THEN slots[s] ELSE slots[s].err)
    /\ CanWrap(slots[s], impl)
    /\ LET r == from_and_wrap(heap, slots[s], conv, f, impl, DEFAULT_FRAMES_CAPACITY)
       IN  Commit(s, r) /\ Restart(s, r)

FromAndWrap(s) ==
    \E conv \in Convs, f \in Frames, impl \in {"E", "Traced"} :
        FromAndWrapAt(s, conv, f, impl)

\* e.into_inner()
IntoInner(s) ==
    /\ slots[s].k = "traced"
    /\ LET r == into_inner(heap, slots[s])
       IN  Commit(s, r) /\ Restart(s, r)

\* e.split()
Split(s) ==
    /\ slots[s].k = "traced"
    /\ LET r == split(heap, slots[s])
       IN  /\ Commit(s, r)
           /\ grow' = [grow EXCEPT ![s] = Fresh(r.val, r.h)]
           /\ rt' = [rt EXCEPT ![s] = View(slots[s], heap)]

\* Traced::compose(error, trace) on the two parts the slot holds
Compose(s) ==
    /\ slots[s].k = "parts"
    /\ LET r == compose(heap, slots[s].err, slots[s].trace)
       IN  /\ Commit(s, r)
           /\ grow' = [grow EXCEPT ![s] = Fresh(r.val, r.h)]
           /\ UNCHANGED rt

\* Traced::from((error, trace))
FromTrace(s) ==
    /\ slots[s].k = "parts"
    /\ LET r == from_trace(heap, slots[s].err, slots[s].trace)
       IN  /\ Commit(s, r)
           /\ grow' = [grow EXCEPT ![s] = Fresh(r.val, r.h)]
           /\ UNCHANGED rt

\* trace.push(f) on a Trace the caller owns (DerefMut, trace.rs:53-57)
TracePushAt(s, f) ==
    /\ slots[s].k = "parts"
    /\ CanPush(slots[s])
    /\ LET r == Ret(slots[s], push(heap, slots[s].trace, f))
       IN  Commit(s, r) /\ Restart(s, r)

TracePush(s) == \E f \in Frames : TracePushAt(s, f)

\* trace.pop() on a Trace the caller owns (DerefMut, trace.rs:53-57)
TracePop(s) ==
    /\ slots[s].k = "parts"
    /\ LET r == Ret(slots[s], pop(heap, slots[s].trace))
       IN  Commit(s, r) /\ Restart(s, r)

\* d = s.clone()
Clone(s, d) ==
    /\ IsError(slots[s])
    /\ slots[d] = None
    /\ Cardinality(FreeIds(heap)) >= Cardinality(IdsOf(slots[s]))
    /\ LET r == clone(heap, slots[s])
       IN  Commit(d, r) /\ Restart(d, r)

\* The value of a slot goes out of scope.
Drop(s) ==
    /\ slots[s] # None
    /\ LET r == Ret(None, drop(heap, slots[s]))
       IN  Commit(s, r) /\ Restart(s, r)

CapChoices == {0, InitialCapacity, MaxCapacity + 1}

\* DEFAULT_FRAMES_CAPACITY.store(c, ..) by configuring code, at any time
Store ==
    /\ \E c \in CapChoices : DEFAULT_FRAMES_CAPACITY' = c
    /\ UNCHANGED <<slots, heap, out, panicked, grow, rt>>

\* format!("{}", e.trace()), or of a Trace the caller owns
Display(s) ==
    /\ slots[s].k \in {"traced", "parts"}
    /\ out' = fmt_Trace(trace(heap, slots[s]))
    /\ panicked' = FALSE
    /\ UNCHANGED <<slots, heap, DEFAULT_FRAMES_CAPACITY, grow, rt>>

\* One error propagates through every entry point, while the capacity is
\* reconfigured concurrently.
Next ==
    \/ Raise(Main)
    \/ New(Main)
    \/ FromFrame(Main)
    \/ MapFrom(Main)
    \/ MapFromAndNew(Main)
    \/ MapFromAndWrap(Main)
    \/ FromAndWrap(Main)
    \/ IntoInner(Main)
    \/ Split(Main)
    \/ Compose(Main)
    \/ FromTrace(Main)
    \/ TracePush(Main)
    \/ TracePop(Main)
    \/ Drop(Main)
    \/ Store
    \/ Display(Main)

Spec == Init /\ [][Next]_vars

\* Several errors, and clones of them, are wrapped independently of each other.
NextOwn ==
    \/ \E s \in Slots : Raise(s)
    \/ \E s \in Slots : New(s)
    \/ \E s \in Slots : FromFrame(s)
    \/ \E s, d \in Slots : Clone(s, d)
    \/ \E s \in Slots : Drop(s)

SpecOwn == Init /\ [][NextOwn]_vars

----------------------------------------------------------------------------
(* Properties.                                                             *)

IsPrefix(a, b) == Len(a) <= Len(b) /\ SubSeq(b, 1, Len(a)) = a

\* The frames of the trace a slot carries (none for a bare or absent value).
FramesOf(v, h) == IF v.k \in {"traced", "parts"} THEN h[v.trace].frames ELSE <<>>

\* A step that wraps the bare value of slot s with frame f.
WrapsBare(s, f) ==
    /\ slots[s].k = "base"
    /\ NewAt(s, f, "E") \/ FromFrameAt(s, f)

C3_NoNesting ==
    [][\A f \in Frames, conv \in Convs, impl \in {"E", "Traced"} :
         ( /\ slots[Main].k = "traced"
           /\ \/ NewAt(Main, f, impl)
              \/ FromFrameAt(Main, f)
              \/ FromAndWrapAt(Main, conv, f, impl)
           /\ ~panicked' )
           => /\ slots'[Main].k = "traced"
              /\ slots'[Main].err.k # "traced"
              /\ FramesOf(slots'[Main], heap')
                   = Append(FramesOf(slots[Main], heap), f)]_vars

\* C4. map_from converts the inner error only: the result carries the
\* converted error and the identical trace, no frame added and none removed.
C4_MapFromKeepsTrace ==
    [][\A conv \in Convs :
         MapFromAt(Main, conv)
           => View(slots'[Main], heap')
                = [k |-> "traced",
                   err |-> View(From(conv, slots[Main].err), heap),
                   trace |-> FramesOf(slots[Main], heap)]]_vars

\* A converted error that still carries frames.
C4_Witness ==
    /\ slots[Main].k = "traced"
    /\ slots[Main].err.k = "base"
    /\ slots[Main].err.ty = "u32"
    /\ Len(heap[slots[Main].trace].frames) = MaxLen
    /\ grow[Main].pushed = <<>>

\* C5. Round trip: compose (or Traced::from) applied to the two parts split
\* returned gives a wrapper with the same inner error and the same trace
\* contents as the one that was split; into_inner returns the inner error
\* that split returns.
C5_RoundTrip ==
    [][/\ ((Compose(Main) \/ FromTrace(Main)) /\ rt[Main] # None)
             => View(slots'[Main], heap') = rt[Main]
       /\ IntoInner(Main)
             => View(slots'[Main], heap')
                  = View(split(heap, slots[Main]).val.err, heap)]_vars

\* A wrapper with two frames was split and composed back.
C5_Witness ==
    /\ slots[Main].k = "traced"
    /\ rt[Main] # None
    /\ Len(heap[slots[Main].trace].frames) = 2

RECURSIVE Trail(_, _)
\* Every frame recorded for the error a value carries, oldest first: the
\* frames of the wrappers nested in it, then those of its own trace.
Trail(v, h) ==
    IF v.k \in {"traced", "parts"} THEN Trail(v.err, h) \o h[v.trace].frames ELSE <<>>

\* A step that takes frames away by design: into_inner discards the trace,
\* Vec::pop removes its last frame.
Discards(s) == IntoInner(s) \/ TracePop(s)

LineText(n) == CASE n = 10 -> "10" [] n = 20 -> "20"

RECURSIVE Rendered(_)
\* The text the display contract asks for: the header, then each frame on
\* its own two lines, in insertion order.
Rendered(frames) ==
    IF frames = <<>> THEN "error trace:"
    ELSE LET n == Len(frames)
             fr == frames[n]
         IN  Rendered(SubSeq(frames, 1, n - 1))
               \o "\n" \o fr.module \o "\n  at " \o fr.file \o ":" \o LineText(fr.line)

\* C7. Trace display: the text is "error trace:" followed, per frame in
\* insertion order, by a newline and "<module>\n  at <file>:<line>"; an empty
\* trace renders as the header alone.
C7_Display ==
    out # ""
      => LET frames == FramesOf(slots[Main], heap)
         IN  /\ out = Rendered(frames)
             /\ frames = <<>> => out = "error trace:"
             /\ frames = <<Frame("a.rs", 10, "m"), Frame("b.rs", 20, "m::sub")>>
                  => out = "error trace:\nm\n  at a.rs:10\nm::sub\n  at b.rs:20"

\* The two-frame scenario was rendered.
C7_Witness == out = "error trace:\nm\n  at a.rs:10\nm::sub\n  at b.rs:20"

\* C8. Composed convert-and-wrap: map_from_and_new!/map_from_and_wrap! and
\* from_and_wrap! applied to a Traced value with trace T and frame f both
\* return a trace equal to T \o <<f>>.
C8_ComposedGrowsByOne ==
    [][\A f \in Frames, conv \in Convs, impl \in {"E", "Traced"} :
         ( /\ slots[Main].k = "traced"
           /\ \/ MapFromAndNewAt(Main, conv, f, impl)
              \/ MapFromAndWrapAt(Main, conv, f)
              \/ FromAndWrapAt(Main, conv, f, impl)
           /\ ~panicked' )
           => FramesOf(slots'[Main], heap')
                = Append(FramesOf(slots[Main], heap), f)]_vars

\* C9. The capacity setting is no correctness input: whatever value
\* DEFAULT_FRAMES_CAPACITY holds, wrapping a bare value never fails and
\* returns the length-1 trace it returns under the default.
C9_CapacityIrrelevant ==
    [][\A f \in Frames :
         WrapsBare(Main, f)
           => /\ ~panicked'
              /\ View(slots'[Main], heap')
                   = View(wrap_traced_E(heap, slots[Main], f, InitialCapacity).val,
                          wrap_traced_E(heap, slots[Main], f, InitialCapacity).h)]_vars

\* The buffers of two different slots, and of the wrappers nested in one
\* value, are all different.
NoSharing ==
    /\ \A s, t \in Slots : s # t => IdsOf(slots[s]) \cap IdsOf(slots[t]) = {}
    /\ \A s \in Slots : slots[s].k = "traced" => slots[s].trace \notin IdsOf(slots[s].err)

\* C10. Exclusive ownership: no two live wrappers share a trace, and a wrap
\* of one slot's value leaves the value of every other slot as it was.
C10_ExclusiveOwnership ==
    [][/\ NoSharing'
       /\ \A s, t \in Slots :
            (s # t /\ (New(s) \/ FromFrame(s)))
              => View(slots'[t], heap') = View(slots[t], heap)]_vars

\* A wrapper and its clone, one of them grown since.
C10_Witness ==
    /\ slots[1].k = "traced"
    /\ slots[2].k = "traced"
    /\ View(slots[1], heap).err = View(slots[2], heap).err
    /\ Len(heap[slots[1].trace].frames) = 1
    /\ Len(heap[slots[2].trace].frames) = 2
    /\ IsPrefix(heap[slots[1].trace].frames, heap[slots[2].trace].frames)

====
